---- MODULE Spec2Model ----
(***************************************************************************)
(* A model of the CDropdown component (src/unnamed/part_000): the          *)
(* placement resolver getPlacement and the visibility controller made of   *)
(* the useState cell _visible, the two effects, the two global handlers    *)
(* and the 1 ms dismissal timer.                                           *)
(*                                                                         *)
(* React's commit is modelled atomically: a state or prop change, the      *)
(* re-render it causes, the cleanup of the previous [_visible] effect and  *)
(* the run of the new one are one step, as React flushes the effects of a  *)
(* commit before it renders again.                                         *)
(*                                                                         *)
(* The children that set the two refs (the toggle and the menu) can be     *)
(* added and removed while the component is mounted; the other props are   *)
(* fixed for the lifetime of an instance.                                  *)
(***************************************************************************)
EXTENDS Integers, Sequences, FiniteSets, TLC

VARIABLES
    phase,              \* "created" (props bound, not mounted), "mounted", "unmounted"
    visible,            \* prop visible (line 203)
    autoClose,          \* prop autoClose (line 190)
    popper,             \* prop popper (line 199)
    alignment,          \* prop alignment (line 189)
    direction,          \* prop direction (line 194)
    placement,          \* prop placement (line 198)
    hasOnShow,          \* whether the optional callback onShow is supplied
    hasOnHide,          \* whether the optional callback onHide is supplied
    rtl,                \* what isRTL answers for the menu element
    toggleRef,          \* dropdownToggleRef.current is an element
    menuRef,            \* dropdownMenuRef.current is an element
    _visible,           \* the useState cell (line 213)
    popperConfig,       \* popperConfig.placement of the last render (line 245)
    effectHandler,      \* identity of the handlers closed over by the live effect
    mouseupListeners,   \* handlers registered on window for 'mouseup'
    keyupListeners,     \* handlers registered on window for 'keyup'
    popperLive,         \* positioning-engine handles created and not destroyed
    popperRef,          \* the usePopper hook holds a handle
    timers,             \* pending setTimeout(() => setVisible(false), 1) callbacks
    staleTimers,        \* those of them started in a shown episode that has ended
    effectRefs,         \* both refs were set when the live effect ran
    callbackOrder,      \* how onShow and onHide have followed each other so far
    lastEvent,          \* the event the last step handled
    trace               \* the external calls the last step made, in order

vars == <<phase, visible, autoClose, popper, alignment, direction, placement,
          hasOnShow, hasOnHide, rtl, toggleRef, menuRef, _visible, popperConfig,
          effectHandler, mouseupListeners, keyupListeners, popperLive, popperRef,
          timers, staleTimers, effectRefs, callbackOrder, lastEvent, trace>>

props == <<visible, autoClose, popper, alignment, direction, placement,
           hasOnShow, hasOnHide>>

\* Pending dismissal timers the model follows at once.
MaxTimers == 2

----------------------------------------------------------------------------
\* The value domains of the props.

\* The placements the component documents for its placement prop.
Placements ==
    {"auto", "top-end", "top", "top-start", "bottom-end", "bottom", "bottom-start",
     "right-start", "right", "right-end", "left-start", "left", "left-end"}

\* direction is optional: "undefined" stands for the absent prop.
DirectionValues ==
    {"undefined", "center", "dropup", "dropup-center", "dropend", "dropstart"}

Directions == {"start", "end"}

\* A responsive alignment is an object with one breakpoint key.
Breakpoints ==
    {"xs:start", "xs:end", "sm:start", "sm:end", "md:start", "md:end",
     "lg:start", "lg:end", "xl:start", "xl:end", "xxl:start", "xxl:end"}

\* alignment is optional: "undefined" stands for the absent prop.
Alignments == {"undefined"} \cup Directions \cup Breakpoints

\* autoClose is true, false, 'inside' or 'outside'; the booleans are written as strings.
AutoCloseValues == {"true", "false", "inside", "outside"}

Unset == "unset"

----------------------------------------------------------------------------
\* getPlacement, with three variants of it used to probe the properties.

getPlacement_rtlIgnored(_placement, _direction, _alignment, isRTL) ==
    LET p1 == IF _direction = "dropup" THEN "top-start" ELSE _placement
        p2 == IF _direction = "dropup-center" THEN "top" ELSE p1
        p3 == IF _direction = "dropend" THEN "right-start" ELSE p2
        p4 == IF _direction = "dropstart" THEN "left-start" ELSE p3
        p5 == IF _alignment = "end"
              THEN (IF isRTL THEN "bottom-start" ELSE "bottom-end") ELSE p4
    IN  p5

getPlacement_alignmentFirst(_placement, _direction, _alignment, isRTL) ==
    LET p0 == IF _alignment = "end"
              THEN (IF isRTL THEN "bottom-start" ELSE "bottom-end") ELSE _placement
        p1 == IF _direction = "dropup"
              THEN (IF isRTL THEN "top-end" ELSE "top-start") ELSE p0
        p2 == IF _direction = "dropup-center" THEN "top" ELSE p1
        p3 == IF _direction = "dropend"
              THEN (IF isRTL THEN "left-start" ELSE "right-start") ELSE p2
        p4 == IF _direction = "dropstart"
              THEN (IF isRTL THEN "right-start" ELSE "left-start") ELSE p3
    IN  p4

getPlacement_topCenter(_placement, _direction, _alignment, isRTL) ==
    LET p1 == IF _direction = "dropup"
              THEN (IF isRTL THEN "top-end" ELSE "top-start") ELSE _placement
        p2 == IF _direction = "dropup-center" THEN "top-center" ELSE p1
        p3 == IF _direction = "dropend"
              THEN (IF isRTL THEN "left-start" ELSE "right-start") ELSE p2
        p4 == IF _direction = "dropstart"
              THEN (IF isRTL THEN "right-start" ELSE "left-start") ELSE p3
        p5 == IF _alignment = "end"
              THEN (IF isRTL THEN "bottom-start" ELSE "bottom-end") ELSE p4
    IN  p5

getPlacement_startAligned(_placement, _direction, _alignment, isRTL) ==
    LET p1 == IF _direction = "dropup"
              THEN (IF isRTL THEN "top-end" ELSE "top-start") ELSE _placement
        p2 == IF _direction = "dropup-center" THEN "top" ELSE p1
        p3 == IF _direction = "dropend"
              THEN (IF isRTL THEN "left-start" ELSE "right-start") ELSE p2
        p4 == IF _direction = "dropstart"
              THEN (IF isRTL THEN "right-start" ELSE "left-start") ELSE p3
        p5 == IF _alignment = "end"
              THEN (IF isRTL THEN "bottom-start" ELSE "bottom-end") ELSE p4
        p6 == IF _alignment = "start"
              THEN (IF isRTL THEN "bottom-end" ELSE "bottom-start") ELSE p5
    IN  p6

\* Lines 152-181: five assignments in order, each overriding the one before.
getPlacement(_placement, _direction, _alignment, isRTL) ==
    LET p1 == IF _direction = "dropup"
              THEN (IF isRTL THEN "top-end" ELSE "top-start") ELSE _placement
        p2 == IF _direction = "dropup-center" THEN "top" ELSE p1
        p3 == IF _direction = "dropend"
              THEN (IF isRTL THEN "left-start" ELSE "right-start") ELSE p2
        p4 == IF _direction = "dropstart"
              THEN (IF isRTL THEN "right-start" ELSE "left-start") ELSE p3
        p5 == IF _alignment = "end"
              THEN (IF isRTL THEN "bottom-start" ELSE "bottom-end") ELSE p4
    IN  p5

\* isRTL(dropdownMenuRef.current): a boolean supplied by the utility.
isRTLMenu == rtl

\* Lines 236-246: the placement handed to the positioning engine.
PopperConfigPlacement == getPlacement(placement, direction, alignment, isRTLMenu)

PopperEnabled_alignmentIgnored == popper

\* Lines 218-221: a responsive alignment switches positioning off.
PopperEnabled == IF alignment \in Breakpoints THEN FALSE ELSE popper

----------------------------------------------------------------------------
\* The events the environment can deliver.

Keys == {"Escape", "Enter"}

\* An event target, by what the two contains() tests answer for it.
Targets == [inToggle : BOOLEAN, inMenu : BOOLEAN]

Event(kind, key, target) ==
    [kind |-> kind, key |-> key, inToggle |-> target.inToggle,
     inMenu |-> target.inMenu, prev |-> _visible]

NoTarget == [inToggle |-> FALSE, inMenu |-> FALSE]

----------------------------------------------------------------------------
\* What the [_visible] effect reads and writes, gathered in one record.

World ==
    [mu |-> mouseupListeners, ku |-> keyupListeners, live |-> popperLive,
     ref |-> popperRef, h |-> effectHandler, refs |-> effectRefs, tr |-> <<>>]

\* The positioning engine's init(trigger, panel, config) -> handle.
initPopper(w) ==
    [w EXCEPT !.live = @ + 1, !.ref = TRUE, !.tr = Append(@, "initPopper")]

\* The positioning engine's destroy(handle): stops the handle the hook holds.
destroyPopper(w) ==
    [w EXCEPT !.live = IF w.ref THEN @ - 1 ELSE @, !.ref = FALSE,
              !.tr = Append(@, "destroyPopper")]

\* Each render creates new handleMouseUp and handleKeyup closures; the effect of
\* that render and its cleanup close over the same pair.
NewHandler(w) ==
    LET used == w.mu \cup w.ku
    IN  CHOOSE i \in 0..Cardinality(used) :
            i \notin used /\ \A j \in 0..(i - 1) : j \in used

EffectCleanup_mouseupKept(w) ==
    LET w1 == IF PopperEnabled THEN destroyPopper(w) ELSE w
    IN  [w1 EXCEPT !.ku = @ \ {w.h},
                   !.tr = IF hasOnHide THEN Append(@, "onHide") ELSE @]

EffectCleanup_keyupKept(w) ==
    LET w1 == IF PopperEnabled THEN destroyPopper(w) ELSE w
    IN  [w1 EXCEPT !.mu = @ \ {w.h},
                   !.tr = IF hasOnHide THEN Append(@, "onHide") ELSE @]

EffectCleanup_popperKept(w) ==
    [w EXCEPT !.mu = @ \ {w.h}, !.ku = @ \ {w.h},
              !.tr = IF hasOnHide THEN Append(@, "onHide") ELSE @]

EffectCleanup_destroyAlways(w) ==
    LET w1 == destroyPopper(w)
    IN  [w1 EXCEPT !.mu = @ \ {w.h}, !.ku = @ \ {w.h},
                   !.tr = IF hasOnHide THEN Append(@, "onHide") ELSE @]

\* Lines 260-265: the cleanup the effect returns.
EffectCleanup(w) ==
    LET w1 == IF PopperEnabled THEN destroyPopper(w) ELSE w
    IN  [w1 EXCEPT !.mu = @ \ {w.h}, !.ku = @ \ {w.h},
                   !.tr = IF hasOnHide THEN Append(@, "onHide") ELSE @]

\* Lines 252-258: the effect body, run in a render whose state is vis.
EffectBody(w, vis) ==
    LET h  == NewHandler(w)
        w0 == [w EXCEPT !.h = h, !.refs = toggleRef /\ menuRef]
        w1 == IF PopperEnabled THEN initPopper(w0) ELSE w0
    IN  IF vis /\ toggleRef /\ menuRef
        THEN [w1 EXCEPT !.mu = @ \cup {h}, !.ku = @ \cup {h},
                        !.tr = IF hasOnShow THEN Append(@, "onShow") ELSE @]
        ELSE w0

SyncVisible_skipped(v) == _visible

\* Lines 248-250: the [visible] effect hands the prop to setVisible.
SyncVisible(v) == v

handleKeyupCloses_escapeAlways(key) == key = "Escape"

\* Lines 268-276: whether handleKeyup calls setVisible(false).
handleKeyupCloses(key) ==
    IF autoClose = "false" THEN FALSE ELSE key = "Escape"

handleMouseUpSchedules_modesSwapped(target) ==
    IF ~toggleRef \/ ~menuRef THEN FALSE
    ELSE IF target.inToggle THEN FALSE
    ELSE \/ autoClose = "true"
         \/ (autoClose = "outside" /\ target.inMenu)
         \/ (autoClose = "inside" /\ ~target.inMenu)

handleMouseUpSchedules_menuIgnored(target) ==
    IF ~toggleRef \/ ~menuRef THEN FALSE
    ELSE IF target.inToggle THEN FALSE
    ELSE autoClose \in {"true", "inside", "outside"}

handleMouseUpSchedules_toggleIgnored(target) ==
    IF ~toggleRef \/ ~menuRef THEN FALSE
    ELSE \/ autoClose = "true"
         \/ (autoClose = "inside" /\ target.inMenu)
         \/ (autoClose = "outside" /\ ~target.inMenu)

handleMouseUpSchedules_refsUnchecked(target) ==
    IF target.inToggle THEN FALSE
    ELSE \/ autoClose = "true"
         \/ (autoClose = "inside" /\ target.inMenu)
         \/ (autoClose = "outside" /\ ~target.inMenu)

\* Lines 278-295: whether handleMouseUp schedules the dismissal timer.
handleMouseUpSchedules(target) ==
    IF ~toggleRef \/ ~menuRef THEN FALSE
    ELSE IF target.inToggle THEN FALSE
    ELSE \/ autoClose = "true"
         \/ (autoClose = "inside" /\ target.inMenu)
         \/ (autoClose = "outside" /\ ~target.inMenu)

----------------------------------------------------------------------------
\* Steps.

\* The world after window has called each handler of a listener set, nTimers of
\* the calls having started a timer.
Called(name, listeners, nTimers) ==
    [World EXCEPT !.tr = [i \in 1..Cardinality(listeners) |-> name]
                         \o [i \in 1..nTimers |-> "setTimeout"]]

\* The order of the onShow and onHide invocations: "none" before the first,
\* "shown" after an onShow that opens or follows an onHide, "hidden" after an
\* onHide that follows an onShow, "broken" once two of them did not alternate.
OrderStep(o, e) ==
    IF e = "onShow" THEN (IF o \in {"none", "hidden"} THEN "shown" ELSE "broken")
    ELSE IF e = "onHide" THEN (IF o = "shown" THEN "hidden" ELSE "broken")
    ELSE o

RECURSIVE OrderAfter(_, _)
OrderAfter(o, tr) ==
    IF tr = <<>> THEN o ELSE OrderAfter(OrderStep(o, Head(tr)), Tail(tr))

Put(w) ==
    /\ effectRefs' = w.refs
    /\ callbackOrder' = OrderAfter(callbackOrder, w.tr)
    /\ mouseupListeners' = w.mu
    /\ keyupListeners' = w.ku
    /\ popperLive' = w.live
    /\ popperRef' = w.ref
    /\ effectHandler' = w.h
    /\ trace' = w.tr

\* setVisible(v) on a mounted instance and the commit that follows: when the
\* state changes, the render is followed by the old effect's cleanup and then
\* the new effect.
Commit(v, w) ==
    /\ _visible' = v
    /\ popperConfig' = PopperConfigPlacement
    /\ Put(IF v # _visible THEN EffectBody(EffectCleanup(w), v) ELSE w)

\* The pending timers that are stale after a step: all that are left once the
\* step has ended a shown episode, else those that were stale and are left.
EpisodeEnds(left, staleLeft) ==
    staleTimers' = IF _visible /\ ~_visible' THEN left ELSE staleLeft

\* A step that renders nothing.
NoCommit(w) ==
    /\ Put(w)
    /\ UNCHANGED <<_visible, popperConfig>>

\* First render and the effects of mount: useState(visible), line 213; the
\* [visible] effect sets the same value; the [_visible] effect runs its body.
Mount ==
    /\ phase = "created"
    /\ phase' = "mounted"
    /\ _visible' = SyncVisible(visible)
    /\ popperConfig' = PopperConfigPlacement
    /\ Put(EffectBody(World, SyncVisible(visible)))
    /\ lastEvent' = Event("mount", "", NoTarget)
    /\ UNCHANGED <<props, rtl, toggleRef, menuRef, timers, staleTimers>>

\* The parent renders the component with another value of the visible prop.
SetVisibleProp(v) ==
    /\ phase = "mounted"
    /\ v # visible
    /\ visible' = v
    /\ Commit(SyncVisible(v), World)
    /\ EpisodeEnds(timers, staleTimers)
    /\ lastEvent' = Event("visibleProp", "", NoTarget)
    /\ UNCHANGED <<phase, autoClose, popper, alignment, direction, placement,
                   hasOnShow, hasOnHide, rtl, toggleRef, menuRef, timers>>

\* The trigger's own toggle, through the setVisible of the context (line 233).
TriggerActivation ==
    /\ phase = "mounted"
    /\ toggleRef
    /\ Commit(~_visible, World)
    /\ EpisodeEnds(timers, staleTimers)
    /\ lastEvent' = Event("trigger", "", NoTarget)
    /\ UNCHANGED <<phase, props, rtl, toggleRef, menuRef, timers>>

\* A key release anywhere: window calls every registered keyup handler.
KeyUp(key) ==
    /\ phase # "created"
    /\ IF keyupListeners # {} /\ handleKeyupCloses(key) /\ phase = "mounted"
       THEN Commit(FALSE, Called("handleKeyup", keyupListeners, 0))
       ELSE NoCommit(Called("handleKeyup", keyupListeners, 0))
    /\ EpisodeEnds(timers, staleTimers)
    /\ lastEvent' = Event("keyup", key, NoTarget)
    /\ UNCHANGED <<phase, props, rtl, toggleRef, menuRef, timers>>

MouseUp_immediate(target) ==
    LET n == IF handleMouseUpSchedules(target)
             THEN Cardinality(mouseupListeners) ELSE 0
    IN  /\ phase # "created"
        /\ IF n > 0 /\ phase = "mounted"
           THEN Commit(FALSE, Called("handleMouseUp", mouseupListeners, 0))
           ELSE NoCommit(Called("handleMouseUp", mouseupListeners, 0))
        /\ EpisodeEnds(timers, staleTimers)
        /\ lastEvent' = Event("mouseup", "", target)
        /\ UNCHANGED <<phase, props, rtl, toggleRef, menuRef, timers>>

\* A pointer release anywhere: window calls every registered mouseup handler,
\* and each one that decides to dismiss starts a 1 ms timer.
MouseUp(target) ==
    LET n == IF handleMouseUpSchedules(target)
             THEN Cardinality(mouseupListeners) ELSE 0
    IN  /\ phase # "created"
        /\ timers + n <= MaxTimers
        /\ timers' = timers + n
        /\ NoCommit(Called("handleMouseUp", mouseupListeners, n))
        /\ lastEvent' = Event("mouseup", "", target)
        /\ UNCHANGED <<phase, props, rtl, toggleRef, menuRef, staleTimers>>

\* A pending timer fires: setVisible(false), line 292.  After unmount the
\* state cell is gone and the call changes nothing.  Timers of equal delay
\* fire in the order they were started, so a stale one fires first.
TimerFires ==
    /\ timers > 0
    /\ timers' = timers - 1
    /\ IF phase = "mounted" THEN Commit(FALSE, World) ELSE NoCommit(World)
    /\ EpisodeEnds(timers - 1, IF staleTimers > 0 THEN staleTimers - 1 ELSE 0)
    /\ lastEvent' = Event("timer", IF staleTimers > 0 THEN "stale" ELSE "current",
                          NoTarget)
    /\ UNCHANGED <<phase, props, rtl, toggleRef, menuRef>>

\* Unmount runs the cleanup of the live effect.
Unmount ==
    /\ phase = "mounted"
    /\ phase' = "unmounted"
    /\ Put(EffectCleanup(World))
    /\ staleTimers' = timers
    /\ lastEvent' = Event("unmount", "", NoTarget)
    /\ UNCHANGED <<props, rtl, toggleRef, menuRef, _visible, popperConfig, timers>>

\* A child is added to or removed from the component's children: its ref is
\* set or cleared, the component renders again, and no effect runs, _visible
\* being the same.
ElementChange(el) ==
    /\ phase = "mounted"
    /\ toggleRef' = (IF el = "toggle" THEN ~toggleRef ELSE toggleRef)
    /\ menuRef' = (IF el = "menu" THEN ~menuRef ELSE menuRef)
    /\ NoCommit(World)
    /\ lastEvent' = Event("children", el, NoTarget)
    /\ UNCHANGED <<phase, props, rtl, timers, staleTimers>>

\* Lines 236-246 alone: the first render computes the popper configuration.
ComputePopperConfig ==
    /\ phase = "created"
    /\ popperConfig = Unset
    /\ popperConfig' = PopperConfigPlacement
    /\ UNCHANGED <<phase, props, rtl, toggleRef, menuRef, _visible, effectHandler,
                   mouseupListeners, keyupListeners, popperLive, popperRef,
                   timers, staleTimers, effectRefs, callbackOrder, lastEvent, trace>>

----------------------------------------------------------------------------
\* Specifications.

\* The configurations the controller is explored under.
MainAlignments == {"undefined", "end", "lg:end"}

InitState ==
    /\ phase = "created"
    /\ _visible = visible
    /\ popperConfig = Unset
    /\ effectHandler = 0
    /\ mouseupListeners = {}
    /\ keyupListeners = {}
    /\ popperLive = 0
    /\ popperRef = FALSE
    /\ timers = 0
    /\ staleTimers = 0
    /\ effectRefs = FALSE
    /\ callbackOrder = "none"
    /\ lastEvent = [kind |-> "none", key |-> "", inToggle |-> FALSE,
                    inMenu |-> FALSE, prev |-> FALSE]
    /\ trace = <<>>

Init ==
    /\ visible \in BOOLEAN
    /\ autoClose \in AutoCloseValues
    /\ popper \in BOOLEAN
    /\ alignment \in MainAlignments
    /\ direction = "undefined"
    /\ placement = "bottom-start"
    /\ hasOnShow \in BOOLEAN
    /\ hasOnHide \in BOOLEAN
    /\ rtl \in BOOLEAN
    /\ toggleRef \in BOOLEAN
    /\ menuRef \in BOOLEAN
    /\ InitState

Next ==
    \/ Mount
    \/ \E v \in BOOLEAN : SetVisibleProp(v)
    \/ TriggerActivation
    \/ \E key \in Keys : KeyUp(key)
    \/ \E target \in Targets : MouseUp(target)
    \/ TimerFires
    \/ Unmount
    \/ \E el \in {"toggle", "menu"} : ElementChange(el)

Spec == Init /\ [][Next]_vars

\* The controller with both callbacks supplied, under a host whose timer queue
\* runs every timer that is due.
FairInit ==
    /\ visible \in BOOLEAN
    /\ autoClose \in AutoCloseValues
    /\ popper \in BOOLEAN
    /\ alignment \in MainAlignments
    /\ direction = "undefined"
    /\ placement = "bottom-start"
    /\ hasOnShow = TRUE
    /\ hasOnHide = TRUE
    /\ rtl = FALSE
    /\ toggleRef \in BOOLEAN
    /\ menuRef \in BOOLEAN
    /\ InitState

FairSpec == FairInit /\ [][Next]_vars /\ WF_vars(TimerFires)

\* The resolver over its whole input domain.
PlacementInit ==
    /\ visible = FALSE
    /\ autoClose = "true"
    /\ popper = TRUE
    /\ alignment \in Alignments
    /\ direction \in DirectionValues
    /\ placement \in Placements
    /\ hasOnShow = FALSE
    /\ hasOnHide = FALSE
    /\ rtl \in BOOLEAN
    /\ toggleRef = TRUE
    /\ menuRef = TRUE
    /\ InitState

PlacementNext == ComputePopperConfig

PlacementSpec == PlacementInit /\ [][PlacementNext]_vars

----------------------------------------------------------------------------
\* Properties.

IsCallback(e) == e \in {"onShow", "onHide"}

IsHandlerCall(e) == e \in {"handleMouseUp", "handleKeyup"}

\* The onShow/onHide invocations of the last step, in order.
Callbacks == SelectSeq(trace, IsCallback)

\* Both elements are mounted.
ElementsMounted == toggleRef /\ menuRef

\* Window called a handler of the instance in the last step.
HandlerCalled == \E i \in 1..Len(trace) : IsHandlerCall(trace[i])

\* The last step handled a pointer release while the panel was shown: the state
\* was shown, its handler was installed, and trigger and panel are mounted.
ReleaseWhileShown ==
    /\ phase = "mounted"
    /\ lastEvent.kind = "mouseup"
    /\ lastEvent.prev
    /\ HandlerCalled
    /\ ElementsMounted

\* A dismissal timer that fires on a mounted instance leaves it hidden.
DismissalHides == (phase = "mounted" /\ lastEvent.kind = "timer") => ~_visible

ScheduledDismissal == \E i \in 1..Len(trace) : trace[i] = "setTimeout"

\* C1: with trigger and panel mounted and both callbacks supplied, a step that
\* takes the state from hidden to shown invokes onShow once and nothing else, a
\* step that takes it from shown to hidden invokes onHide once and nothing
\* else, and a step without a transition invokes neither.
C1_CallbacksFollowTransitions ==
    (/\ phase = "mounted"
     /\ lastEvent.kind \in {"visibleProp", "trigger", "keyup", "timer"}
     /\ ElementsMounted /\ hasOnShow /\ hasOnHide)
    => Callbacks = IF ~lastEvent.prev /\ _visible THEN <<"onShow">>
                   ELSE IF lastEvent.prev /\ ~_visible THEN <<"onHide">>
                   ELSE <<>>

C5_ListenersPairedAlways ==
    phase = "mounted"
    => IF _visible
       THEN Cardinality(mouseupListeners) = 1 /\ Cardinality(keyupListeners) = 1
       ELSE mouseupListeners = {} /\ keyupListeners = {}

\* C5: in every state of a mounted instance, shown means exactly one
\* registration of each global listener provided trigger and panel were both
\* mounted when the state became shown; and hidden means none.
C5_ListenersPaired ==
    phase = "mounted"
    => IF _visible
       THEN effectRefs
            => Cardinality(mouseupListeners) = 1 /\ Cardinality(keyupListeners) = 1
       ELSE mouseupListeners = {} /\ keyupListeners = {}

C5_Witness ==
    /\ phase = "mounted"
    /\ lastEvent.kind = "trigger" /\ ~lastEvent.prev
    /\ visible /\ _visible /\ effectRefs
    /\ Cardinality(mouseupListeners) = 1

\* C6: after unmount no global listener of the instance is registered, and a
\* global pointer or key release calls no handler of it.
C6_UnmountRemovesListeners ==
    phase = "unmounted"
    => /\ mouseupListeners = {}
       /\ keyupListeners = {}
       /\ \A i \in 1..Len(trace) : ~IsHandlerCall(trace[i])

C6_Witness ==
    /\ phase = "unmounted"
    /\ _visible /\ effectRefs
    /\ lastEvent.kind = "mouseup"
    /\ trace = <<>>

\* C7: after a step in which the visible prop changed value, the internal
\* state equals the new prop value.
C7_PropOverrides == lastEvent.kind = "visibleProp" => _visible = visible

C7_Witness ==
    /\ lastEvent.kind = "visibleProp"
    /\ visible /\ _visible /\ ~lastEvent.prev
    /\ timers > 0

\* C8: when alignment is not 'end', the resolved placement is top-start for
\* dropup (top-end under RTL), top for dropup-center, right-start for dropend
\* (left-start under RTL) and left-start for dropstart (right-start under RTL),
\* whatever placement was requested.
C8_DirectionRules ==
    (popperConfig # Unset /\ alignment # "end")
    => /\ direction = "dropup"
          => popperConfig = IF rtl THEN "top-end" ELSE "top-start"
       /\ direction = "dropup-center" => popperConfig = "top"
       /\ direction = "dropend"
          => popperConfig = IF rtl THEN "left-start" ELSE "right-start"
       /\ direction = "dropstart"
          => popperConfig = IF rtl THEN "right-start" ELSE "left-start"

C8_Witness ==
    /\ popperConfig = "top-end"
    /\ direction = "dropup" /\ rtl /\ alignment = "start" /\ placement = "left"

\* C9: when alignment is 'end', the resolved placement is bottom-end
\* (bottom-start under RTL), whatever the direction and the requested placement.
C9_AlignmentEndLast ==
    (popperConfig # Unset /\ alignment = "end")
    => popperConfig = IF rtl THEN "bottom-start" ELSE "bottom-end"

C9_Witness ==
    /\ popperConfig = "bottom-start"
    /\ alignment = "end" /\ rtl /\ direction = "dropend" /\ placement = "top"

\* Every placement the resolver returns over the inputs the component accepts.
ResolverRange ==
    {getPlacement(p, d, a, r) :
        p \in Placements, d \in DirectionValues, a \in Alignments, r \in BOOLEAN}

\* C10 as stated: the resolved placement belongs to a fixed enum of nine
\* members, that is, the resolver's results over all accepted inputs fit in
\* nine values.
C10_NineMemberEnum ==
    popperConfig # Unset
    => popperConfig \in ResolverRange /\ Cardinality(ResolverRange) <= 9

\* C10: the resolved placement is one of the thirteen placements the component
\* accepts for its placement prop.
C10_InPlacements == popperConfig # Unset => popperConfig \in Placements

C10_Witness ==
    /\ popperConfig = "auto"
    /\ placement = "auto" /\ direction = "center" /\ alignment = "lg:end"

TraceHas(name) == \E i \in 1..Len(trace) : trace[i] = name

\* The last step committed a change of _visible on a mounted instance.
Transition ==
    /\ phase = "mounted"
    /\ lastEvent.kind \in {"visibleProp", "trigger", "keyup", "timer"}
    /\ lastEvent.prev # _visible

\* C11: with direction absent or 'center' and alignment absent, 'start' or a
\* breakpoint map, the resolved placement is the requested one, under RTL as
\* without it.
C11_FallThrough ==
    (/\ popperConfig # Unset
     /\ direction \in {"undefined", "center"}
     /\ alignment \in ({"undefined", "start"} \cup Breakpoints))
    => popperConfig = placement

C11_Witness ==
    /\ popperConfig = "left-end"
    /\ placement = "left-end" /\ direction = "center" /\ alignment = "start" /\ rtl

\* C12: a pointer release whose target is in the trigger leaves the state as
\* it was and schedules no dismissal, under every autoClose mode and whether
\* or not the target is also in the panel.
C12_TriggerRelease ==
    (lastEvent.kind = "mouseup" /\ lastEvent.inToggle)
    => _visible = lastEvent.prev /\ ~ScheduledDismissal

C12_Witness ==
    /\ phase = "mounted"
    /\ lastEvent.kind = "mouseup" /\ lastEvent.inToggle /\ ~lastEvent.inMenu
    /\ lastEvent.prev /\ HandlerCalled /\ ElementsMounted
    /\ autoClose = "outside"
    /\ timers = 0

\* C13: the step that handles a pointer release never changes the state; a
\* dismissal it schedules on a mounted instance is followed, the timer being
\* run, by a state in which the instance is hidden (or unmounted); an Escape
\* release that dismisses leaves the state hidden in its own step.
C13_DeferredDismissal ==
    /\ [](lastEvent.kind = "mouseup" => _visible = lastEvent.prev)
    /\ []((/\ phase = "mounted"
           /\ lastEvent.kind = "keyup" /\ lastEvent.key = "Escape"
           /\ HandlerCalled /\ autoClose # "false")
          => ~_visible)
    /\ ((phase = "mounted" /\ ScheduledDismissal)
        ~> (phase # "mounted" \/ ~_visible))

C13_Witness ==
    /\ phase = "mounted"
    /\ lastEvent.kind = "timer" /\ lastEvent.key = "current"
    /\ lastEvent.prev /\ ~_visible

\* C14: while the state is shown and was entered with the trigger or the panel
\* absent, no global listener is registered and no engine handle is live, and
\* the step that entered it called neither initPopper nor onShow; a pointer
\* release handled while either element is absent leaves the state as it was
\* and schedules no dismissal.
C14_AbsentElementsNoOp ==
    /\ (phase = "mounted" /\ _visible /\ ~effectRefs)
       => /\ mouseupListeners = {} /\ keyupListeners = {}
          /\ popperLive = 0 /\ ~popperRef
          /\ (lastEvent.kind = "mount" \/ Transition)
             => ~TraceHas("initPopper") /\ ~TraceHas("onShow")
    /\ (lastEvent.kind = "mouseup" /\ ~ElementsMounted)
       => _visible = lastEvent.prev /\ ~ScheduledDismissal

C14_Witness ==
    /\ phase = "mounted"
    /\ lastEvent.kind = "mouseup" /\ ~lastEvent.inToggle
    /\ lastEvent.prev /\ HandlerCalled
    /\ ~toggleRef /\ menuRef
    /\ autoClose = "true"

\* C15: at most one engine handle is live, and none is live while the instance
\* is hidden or after unmount.
C15_PopperPaired ==
    /\ popperLive <= 1
    /\ ((phase = "mounted" /\ ~_visible) \/ phase = "unmounted")
       => popperLive = 0 /\ ~popperRef

C15_Witness ==
    /\ phase = "unmounted"
    /\ lastEvent.kind = "unmount" /\ lastEvent.prev
    /\ effectRefs /\ PopperEnabled
    /\ TraceHas("destroyPopper")
    /\ timers > 0

\* What the cleanup and the effect body call besides the positioning engine
\* when a commit changes _visible.
CommitCalls ==
    (IF hasOnHide THEN <<"onHide">> ELSE <<>>)
    \o (IF _visible /\ effectRefs /\ hasOnShow THEN <<"onShow">> ELSE <<>>)

\* C16: with a breakpoint map as alignment the engine is never initialised nor
\* destroyed, whatever the popper prop; listeners are registered and the
\* callbacks invoked as the cleanup and the effect body do without the engine.
C16_ResponsiveDisablesPopper ==
    alignment \in Breakpoints
    => /\ ~TraceHas("initPopper") /\ ~TraceHas("destroyPopper")
       /\ popperLive = 0 /\ ~popperRef
       /\ (phase = "mounted" /\ _visible /\ effectRefs)
          => Cardinality(mouseupListeners) = 1 /\ Cardinality(keyupListeners) = 1
       /\ (phase = "mounted" /\ ~_visible)
          => mouseupListeners = {} /\ keyupListeners = {}
       /\ (Transition /\ lastEvent.kind # "keyup") => trace = CommitCalls

C16_Witness ==
    /\ alignment \in Breakpoints /\ popper
    /\ Transition /\ lastEvent.kind = "visibleProp"
    /\ _visible /\ effectRefs /\ hasOnShow
    /\ TraceHas("onShow")

\* C17: a dismissal timer that fires after the shown episode that started it
\* has ended changes nothing: it does not hide a panel shown again meanwhile,
\* and it changes no state after unmount.
C17_StaleTimerHarmless ==
    (lastEvent.kind = "timer" /\ lastEvent.key = "stale")
    => _visible = lastEvent.prev /\ trace = <<>>

\* C18: with both callbacks supplied, the invocations of onShow and onHide
\* alternate, starting with onShow.
C18_CallbacksAlternate == (hasOnShow /\ hasOnHide) => callbackOrder # "broken"

\* C19 as stated: destroyPopper is not called by a step that takes the state
\* from hidden to shown, nor by the unmount of a hidden instance, nor by the
\* unmount of an instance whose shown state was entered with an element absent.
C19_DestroyOnlyLive ==
    TraceHas("destroyPopper")
    => /\ ~(Transition /\ ~lastEvent.prev)
       /\ ~(lastEvent.kind = "unmount" /\ (~lastEvent.prev \/ ~effectRefs))

\* C19: destroyPopper is called exactly by the steps that run the effect's
\* cleanup with positioning enabled, that is every change of _visible of a
\* mounted instance, in either direction, and every unmount; and the number
\* of live handles never goes below zero.
C19_DestroyOnCleanup ==
    /\ TraceHas("destroyPopper")
       <=> (PopperEnabled /\ (Transition \/ lastEvent.kind = "unmount"))
    /\ popperLive >= 0

C19_Witness ==
    /\ Transition /\ ~lastEvent.prev /\ _visible
    /\ lastEvent.kind = "trigger"
    /\ TraceHas("destroyPopper") /\ TraceHas("initPopper")
    /\ popperLive = 1

====
